---- MODULE Spec2Model ----
(***************************************************************************)
(* Model of src/server.py: the Infini request signer                       *)
(* (InfiniClient._sign_request), the HTTP wrapper (InfiniClient.request)   *)
(* and the webhook verifier (verify_webhook_signature).                    *)
(*                                                                         *)
(* Python str values are sequences of code points, bytes values are        *)
(* sequences of 0..255.  Optional[str] is a sequence of length <= 1:       *)
(* None is << >> and the string s is << s >>.  Values the tools return to  *)
(* their caller (the messages of verify_webhook_signature, the error       *)
(* texts) are TLA+ strings.                                                *)
(***************************************************************************)
EXTENDS Integers, Sequences, FiniteSets, TLC

\* ------------------------------------------------------------------------
\* Bounds of the model
\* ------------------------------------------------------------------------
MaxClock == 1        \* the wall clock reads 0..MaxClock seconds after the epoch
NumThreads == 2      \* concurrent callers in SpecConc

\* ------------------------------------------------------------------------
\* Python values
\* ------------------------------------------------------------------------
None == << >>
Str(s) == << s >>
Val(x) == x[1]
\* `not x` for an Optional[str] / Optional[bytes]: None and the empty value
Falsy(x) == x = None \/ Val(x) = << >>
\* f"{x}" for an Optional[str]
PyFormat(x) == IF x = None THEN <<78,111,110,101>> ELSE Val(x)

LF == <<10>>
IsAscii(s) == \A i \in 1..Len(s) : s[i] < 128

\* the concatenation of ss[lo..hi]
RECURSIVE FlattenRange(_, _, _)
FlattenRange(ss, lo, hi) ==
    IF lo > hi THEN << >>
    ELSE IF lo = hi THEN ss[lo]
    ELSE LET mid == (lo + hi) \div 2
         IN  FlattenRange(ss, lo, mid) \o FlattenRange(ss, mid + 1, hi)
Flatten(ss) == FlattenRange(ss, 1, Len(ss))

\* str.upper() on the ASCII range
UpperChar(c) == IF c >= 97 /\ c <= 122 THEN c - 32 ELSE c
Upper(s) == [i \in 1..Len(s) |-> UpperChar(s[i])]

\* str.encode('utf-8') for code points below 0x800
Utf8Char(c) == IF c < 128 THEN <<c>> ELSE <<192 + (c \div 64), 128 + (c % 64)>>
Utf8Encode(s) == Flatten([i \in 1..Len(s) |-> Utf8Char(s[i])])

\* ------------------------------------------------------------------------
\* base64.b64encode(...).decode()
\* ------------------------------------------------------------------------
B64Char(i) == IF i < 26 THEN 65 + i
              ELSE IF i < 52 THEN 97 + (i - 26)
              ELSE IF i < 62 THEN 48 + (i - 52)
              ELSE IF i = 62 THEN 43 ELSE 47

RECURSIVE B64Encode(_)
B64Encode(bs) ==
    IF Len(bs) = 0 THEN << >>
    ELSE IF Len(bs) = 1 THEN
        <<B64Char(bs[1] \div 4), B64Char((bs[1] % 4) * 16), 61, 61>>
    ELSE IF Len(bs) = 2 THEN
        <<B64Char(bs[1] \div 4),
          B64Char((bs[1] % 4) * 16 + (bs[2] \div 16)),
          B64Char((bs[2] % 16) * 4), 61>>
    ELSE
        <<B64Char(bs[1] \div 4),
          B64Char((bs[1] % 4) * 16 + (bs[2] \div 16)),
          B64Char((bs[2] % 16) * 4 + (bs[3] \div 64)),
          B64Char(bs[3] % 64)>> \o B64Encode(SubSeq(bs, 4, Len(bs)))

\* ------------------------------------------------------------------------
\* hashlib.sha256 and hmac.new(key, msg, hashlib.sha256).digest()
\* The digest is narrowed to 16 bits (two bytes); the construction of HMAC
\* (inner and outer keyed hash over a padded key) is kept.
\* ------------------------------------------------------------------------
\* a * b modulo 2^16, within 32-bit arithmetic
MulMod(a, b) == ((((a \div 256) * b) % 65536) * 256 + (a % 256) * b) % 65536

\* h -> (h * 33 + b + 1) % 65536 folded over the bytes bs[lo..hi], as the
\* pair (mul, add) of the affine map h |-> (h * mul + add) % 65536
RECURSIVE HashRange(_, _, _)
HashRange(bs, lo, hi) ==
    IF lo > hi THEN [add |-> 0, mul |-> 1]
    ELSE IF lo = hi THEN [add |-> bs[lo] + 1, mul |-> 33]
    ELSE LET mid == (lo + hi) \div 2
             l == HashRange(bs, lo, mid)
             r == HashRange(bs, mid + 1, hi)
         IN  [add |-> (MulMod(l.add, r.mul) + r.add) % 65536, mul |-> MulMod(l.mul, r.mul)]
HashFold(h, bs) ==
    LET m == HashRange(bs, 1, Len(bs)) IN (MulMod(h, m.mul) + m.add) % 65536

Sha256(bs) == LET h == HashFold(5381, bs) IN <<h \div 256, h % 256>>

HmacBlock(key) == LET k == IF Len(key) > 4 THEN Sha256(key) ELSE key
                  IN  [i \in 1..4 |-> IF i <= Len(k) THEN k[i] ELSE 0]
HmacPad(key, pad) == [i \in 1..4 |-> (HmacBlock(key)[i] + pad) % 256]
HmacSha256(key, msg) ==
    Sha256(HmacPad(key, 92) \o Sha256(HmacPad(key, 54) \o msg))

\* ------------------------------------------------------------------------
\* InfiniClient._sign_request
\* ------------------------------------------------------------------------
\* datetime.now(timezone.utc).strftime('%a, %d %b %Y %H:%M:%S GMT') for a
\* clock that reads `now` seconds (now < 60) after 1970-01-01 00:00:00 UTC
Strftime(now) ==
    <<84,104,117,44,32,48,49,32,74,97,110,32,49,57,55,48,32,48,48,58,48,48,58>>  \* "Thu, 01 Jan 1970 00:00:"
    \o <<48 + (now \div 10), 48 + (now % 10)>>
    \o <<32,71,77,84>>                                                        \* " GMT"

\* variant of BodyDigest that tests `if body:` instead of `is not None`
BodyDigest_truthy(body) ==
    IF ~Falsy(body) THEN Str(B64Encode(Sha256(Utf8Encode(Val(body))))) ELSE None
\* body_digest_base64: None without a body, else base64(sha256(body))
BodyDigest(body) ==
    IF body # None THEN Str(B64Encode(Sha256(Utf8Encode(Val(body))))) ELSE None

\* variant of SigningString that leaves the method as given
SigningString_rawMethod(key_id, method, path, gmt_time, body_digest_base64) ==
    PyFormat(key_id) \o LF
    \o method \o <<32>> \o path \o LF
    \o <<100,97,116,101,58,32>> \o gmt_time \o LF
    \o (IF body_digest_base64 # None
        THEN <<100,105,103,101,115,116,58,32>> \o <<83,72,65,45,50,53,54,61>>
             \o Val(body_digest_base64) \o LF
        ELSE << >>)
\* variant of SigningString that separates the lines instead of ending each
SigningString_noFinalLF(key_id, method, path, gmt_time, body_digest_base64) ==
    PyFormat(key_id) \o LF
    \o Upper(method) \o <<32>> \o path \o LF
    \o <<100,97,116,101,58,32>> \o gmt_time
    \o (IF body_digest_base64 # None
        THEN LF \o <<100,105,103,101,115,116,58,32>> \o <<83,72,65,45,50,53,54,61>>
             \o Val(body_digest_base64)
        ELSE << >>)
\* signing_string
SigningString(key_id, method, path, gmt_time, body_digest_base64) ==
    PyFormat(key_id) \o LF
    \o Upper(method) \o <<32>> \o path \o LF
    \o <<100,97,116,101,58,32>> \o gmt_time \o LF                             \* "date: "
    \o (IF body_digest_base64 # None
        THEN <<100,105,103,101,115,116,58,32>>                                \* "digest: "
             \o <<83,72,65,45,50,53,54,61>>                                   \* "SHA-256="
             \o Val(body_digest_base64) \o LF
        ELSE << >>)

\* base64(hmac.new(key, msg, sha256).digest()).decode()
B64Hmac(key, msg) == B64Encode(HmacSha256(key, msg))

\* the Authorization header value
AuthorizationHeader(key_id, signature) ==
    <<83,105,103,110,97,116,117,114,101,32,107,101,121,73,100,61,34>>         \* 'Signature keyId="'
    \o PyFormat(key_id)
    \o <<34,44,97,108,103,111,114,105,116,104,109,61,34,104,109,97,99,45,
         115,104,97,50,53,54,34,44>>                                          \* '",algorithm="hmac-sha256",'
    \o <<104,101,97,100,101,114,115,61,34,64,114,101,113,117,101,115,116,45,
         116,97,114,103,101,116,32,100,97,116,101,34,44>>                     \* 'headers="@request-target date",'
    \o <<115,105,103,110,97,116,117,114,101,61,34>>                           \* 'signature="'
    \o signature \o <<34>>

\* the headers dict
SignHeaders(gmt_time, key_id, signature, body_digest_base64) ==
    LET base == ("Authorization" :> AuthorizationHeader(key_id, signature))
                @@ ("Date" :> gmt_time)
    IN  IF body_digest_base64 # None
        THEN base @@ ("Digest" :> (<<83,72,65,45,50,53,54,61>> \o Val(body_digest_base64)))
        ELSE base

NoHeaders == [h \in {} |-> << >>]
HmacKeyTypeError == "TypeError: key: expected bytes or bytearray, but got 'NoneType'"

\* One call of _sign_request on `self` with the clock reading `now`.
\* hmac.new raises TypeError for a None key; the exception leaves the method.
SignRequest(self, method, path, body, now) ==
    LET gmt_time == Strftime(now)
        body_digest_base64 == BodyDigest(body)
        signing_string ==
            SigningString(self.key_id, method, path, gmt_time, body_digest_base64)
    IN  IF self.secret_key = None
        THEN [headers |-> NoHeaders, raised |-> HmacKeyTypeError,
              signing_string |-> signing_string]
        ELSE [headers |-> SignHeaders(gmt_time, self.key_id,
                                      B64Hmac(Val(self.secret_key), Utf8Encode(signing_string)),
                                      body_digest_base64),
              raised |-> "",
              signing_string |-> signing_string]

\* ------------------------------------------------------------------------
\* verify_webhook_signature
\* ------------------------------------------------------------------------
MsgNoSecret == "Error: No webhook secret available"
MsgVerified == "Webhook signature verified successfully"
MsgFailed   == "Webhook signature verification failed"
CompareDigestTypeError == "comparing strings with non-ASCII characters is not supported"

\* variant of MsgError that reports an exception as a mismatch
MsgError_asFailed(e) == "Webhook signature verification failed"
\* except Exception as e: return f"Error verifying webhook: {str(e)}"
MsgError(e) == "Error verifying webhook: " \o e

\* if not webhook_secret: webhook_secret = INFINI_SECRET_KEY
ResolveSecret(webhook_secret, default) ==
    IF Falsy(webhook_secret) THEN default ELSE webhook_secret

\* variant of WebhookSigningString that puts a separator between the parts
WebhookSigningString_sep(timestamp, body) == timestamp \o <<46>> \o body
\* signing_string = f"{timestamp}{body}"
WebhookSigningString(timestamp, body) == timestamp \o body

\* hmac.compare_digest(a, b) on two str: TypeError unless both are ASCII;
\* otherwise one pass over all of b, accumulating the differences
\* (a is replaced by b, and the result forced to unequal, when the lengths
\* differ).  steps counts the positions the pass visits.
RECURSIVE TsCmp(_, _, _, _)
TsCmp(left, right, i, diff) ==
    IF i > Len(right) THEN [diff |-> diff, steps |-> i - 1]
    ELSE TsCmp(left, right, i + 1, IF left[i] # right[i] THEN 1 ELSE diff)

\* variant of CompareDigest that compares like ==, stopping at the first
\* difference
RECURSIVE EarlyExitCmp(_, _, _)
EarlyExitCmp(left, right, i) ==
    IF i > Len(right) THEN [diff |-> 0, steps |-> i - 1]
    ELSE IF left[i] # right[i] THEN [diff |-> 1, steps |-> i]
    ELSE EarlyExitCmp(left, right, i + 1)

CompareDigest_earlyExit(a, b) ==
    IF ~IsAscii(a) \/ ~IsAscii(b)
    THEN [equal |-> FALSE, raised |-> CompareDigestTypeError, steps |-> 0]
    ELSE IF Len(a) # Len(b) THEN [equal |-> FALSE, raised |-> "", steps |-> 0]
    ELSE LET r == EarlyExitCmp(a, b, 1)
         IN  [equal |-> r.diff = 0, raised |-> "", steps |-> r.steps]
CompareDigest(a, b) ==
    IF ~IsAscii(a) \/ ~IsAscii(b)
    THEN [equal |-> FALSE, raised |-> CompareDigestTypeError, steps |-> 0]
    ELSE LET same == Len(a) = Len(b)
             r == TsCmp(IF same THEN a ELSE b, b, 1, IF same THEN 0 ELSE 1)
         IN  [equal |-> r.diff = 0, raised |-> "", steps |-> r.steps]

\* the try block, for a secret that passed the guards
VerifyBody(body, signature, timestamp, webhook_secret) ==
    LET signing_string == WebhookSigningString(timestamp, body)
        expected_signature ==
            B64Hmac(Utf8Encode(webhook_secret), Utf8Encode(signing_string))
        cmp == CompareDigest(signature, expected_signature)
    IN  [branch |-> IF cmp.raised # "" THEN "except"
                    ELSE IF cmp.equal THEN "verified" ELSE "failed",
         steps |-> cmp.steps,
         value |-> IF cmp.raised # "" THEN MsgError(cmp.raised)
                   ELSE IF cmp.equal THEN MsgVerified ELSE MsgFailed]

\* ------------------------------------------------------------------------
\* InfiniClient.request helpers
\* ------------------------------------------------------------------------
\* A dict is a sequence of <<key, value>> pairs of strings, in insertion order.
\* sep.join(ss)
Join(ss, sep) == Flatten([i \in 1..Len(ss) |-> IF i = 1 THEN ss[i] ELSE sep \o ss[i]])

\* json.dumps(json_data, separators=(',', ':'))
JsonItem(kv) == <<34>> \o kv[1] \o <<34, 58, 34>> \o kv[2] \o <<34>>
JsonDumps(d) == <<123>> \o Join([i \in 1..Len(d) |-> JsonItem(d[i])], <<44>>) \o <<125>>

\* urlencode(params), for keys and values made of unreserved characters
UrlItem(kv) == kv[1] \o <<61>> \o kv[2]
UrlEncode(d) == Join([i \in 1..Len(d) |-> UrlItem(d[i])], <<38>>)

\* BASE_URLS.get(INFINI_ENV, BASE_URLS["sandbox"]) with INFINI_ENV unset
BASE_URL == <<104,116,116,112,115,58,47,47,111,112,101,110,97,112,105,45,115,97,
              110,100,98,111,120,46,105,110,102,105,110,105,46,109,111,110,101,121>>

\* InfiniClient.__init__
NewClient(api_key, secret_key) ==
    [base_url |-> BASE_URL,
     key_id |-> api_key,
     secret_key |-> IF ~Falsy(secret_key) THEN Str(Utf8Encode(Val(secret_key))) ELSE None]

\* variant of CredentialsMissing that requires both to be missing
CredentialsMissing_and(self) == Falsy(self.key_id) /\ Falsy(self.secret_key)
\* if not self.key_id or not self.secret_key
CredentialsMissing(self) == Falsy(self.key_id) \/ Falsy(self.secret_key)

MsgNotConfigured == "API credentials not configured"

\* ------------------------------------------------------------------------
\* State
\* ------------------------------------------------------------------------
VARIABLES
    INFINI_API_KEY,     \* module global, Optional[str]
    INFINI_SECRET_KEY,  \* module global, Optional[str]
    client,             \* the module's InfiniClient instance
    clock,              \* the wall clock, in seconds
    pc,                 \* per caller: where its invocation stands
    frame,              \* per caller: the operation invoked and its arguments
    locals,             \* per caller: the local variables of the invocation
    result,             \* per caller: what the invocation returned or raised
    signer_calls,       \* per caller: the _sign_request calls of the invocation
    transport_calls     \* per caller: the httpx client.request calls of the invocation

vars == <<INFINI_API_KEY, INFINI_SECRET_KEY, client, clock, pc, frame, locals,
          result, signer_calls, transport_calls>>

ThreadIds == 1..NumThreads

NoFrame == [op |-> "none"]
NoLocals == [stage |-> "none"]
Pending == [raised |-> "", value |-> "pending"]
Returned(v) == [raised |-> "", value |-> v]
Raised(e) == [raised |-> e, value |-> "raised"]

\* ------------------------------------------------------------------------
\* Inputs
\* ------------------------------------------------------------------------
S_GET == <<71,69,84>>
S_post == <<112,111,115,116>>
S_order == <<47,111,114,100,101,114>>
S_currency == <<47,99,117,114,114,101,110,99,121>>
S_braces == <<123,125>>
S_x == <<120>>
S_json_a1 == <<123,34,97,34,58,49,125>>
S_ts == <<49,55,48,48,48,48,48,48,48,48>>
S_wrong == <<119,114,111,110,103>>
S_cafe == <<99,97,102,233>>
S_key1 == <<107,101,121,45,49>>
S_s3cr3t == <<115,51,99,114,51,116>>
S_whsec == <<119,104,115,101,99>>
D_order == << <<(<<111,114,100,101,114,95,105,100>>), (<<52,50>>)>> >>
D_page == << <<(<<112,97,103,101>>), (<<49>>)>>, <<(<<115,105,122,101>>), (<<57>>)>> >>

EnvApiKeys == {None, Str(<< >>), Str(S_key1)}
EnvSecrets == {None, Str(<< >>), Str(S_s3cr3t)}

Methods == {S_GET, S_post}
Paths == {S_order, S_currency}
Bodies == {None, Str(<< >>), Str(S_braces), Str(S_cafe)}
JsonInputs == {None, Str(<< >>), Str(D_order)}
ParamInputs == {None, Str(<< >>), Str(D_page)}
WebhookBodies == {S_x, S_json_a1}
Timestamps == {S_ts, << >>}
WebhookSecrets == {None, Str(<< >>), Str(S_whsec)}

\* signatures a webhook may carry: the right one for some secret, near misses
\* of the same length, a truncated one, one with a non-ASCII character, junk
OtherChar(c) == IF c = 65 THEN 66 ELSE 65
SigVariants(e) ==
    {e, [e EXCEPT ![1] = OtherChar(@)], [e EXCEPT ![Len(e) - 1] = OtherChar(@)],
     SubSeq(e, 1, Len(e) - 1), <<233>> \o Tail(e)}
SignatureInputs(body, timestamp, secrets) ==
    {S_wrong, S_cafe}
    \cup UNION {SigVariants(B64Hmac(Utf8Encode(Val(k)), Utf8Encode(timestamp \o body))) :
                k \in {x \in secrets : ~Falsy(x)}}

\* per body and timestamp, for the secrets the inputs can make effective
SignatureTable ==
    [b \in WebhookBodies, ts \in Timestamps |->
        SignatureInputs(b, ts, {Str(S_s3cr3t), Str(S_whsec)})]

ConcMethods == {S_GET}
ConcPaths == {S_order}
ConcBodies == {Str(S_braces)}
ConcJsonInputs == {Str(D_order)}
ConcParamInputs == {None}
ConcWebhookBodies == {S_x}
ConcTimestamps == {S_ts}
ConcWebhookSecrets == {None, Str(S_whsec)}
ConcTransportOutcomes == {"exception", "ok"}
ConcSignatureTable ==
    [b \in ConcWebhookBodies, ts \in ConcTimestamps |->
        {S_wrong, B64Hmac(Utf8Encode(S_s3cr3t), Utf8Encode(ts \o b))}]

\* ------------------------------------------------------------------------
\* Initial state: the module has been imported
\* ------------------------------------------------------------------------
InitWith(apiKeys, secrets) ==
    /\ INFINI_API_KEY \in apiKeys
    /\ INFINI_SECRET_KEY \in secrets
    /\ client = NewClient(INFINI_API_KEY, INFINI_SECRET_KEY)
    /\ clock = 0
    /\ pc = [t \in ThreadIds |-> "idle"]
    /\ frame = [t \in ThreadIds |-> NoFrame]
    /\ locals = [t \in ThreadIds |-> NoLocals]
    /\ result = [t \in ThreadIds |-> Pending]
    /\ signer_calls = [t \in ThreadIds |-> << >>]
    /\ transport_calls = [t \in ThreadIds |-> << >>]

Init == InitWith(EnvApiKeys, EnvSecrets)

InitConc == InitWith({None, Str(S_key1)}, {None, Str(S_s3cr3t)})

\* ------------------------------------------------------------------------
\* Invocations.  A caller that is idle invokes one operation; the operation
\* runs in the steps below; Return hands the result over and frees the caller.
\* ------------------------------------------------------------------------
Enter(t, stage) ==
    /\ pc[t] = "idle"
    /\ pc' = [pc EXCEPT ![t] = stage]
    /\ locals' = [locals EXCEPT ![t] = NoLocals]
    /\ result' = [result EXCEPT ![t] = Pending]
    /\ signer_calls' = [signer_calls EXCEPT ![t] = << >>]
    /\ transport_calls' = [transport_calls EXCEPT ![t] = << >>]
    /\ UNCHANGED <<INFINI_API_KEY, INFINI_SECRET_KEY, client, clock>>

\* client._sign_request(method, path, body) is called
CallSign(t, method, path, body) ==
    /\ Enter(t, "sign")
    /\ frame' = [frame EXCEPT ![t] =
                    [body |-> body, method |-> method, op |-> "sign", path |-> path]]

\* client.request(method, path, json_data, params) is called
CallRequest(t, method, path, json_data, params) ==
    /\ Enter(t, "request")
    /\ frame' = [frame EXCEPT ![t] =
                    [json_data |-> json_data, method |-> method, op |-> "request",
                     params |-> params, path |-> path]]

\* verify_webhook_signature(body, signature, timestamp, webhook_secret) is called
CallVerify(t, body, signature, timestamp, webhook_secret) ==
    /\ Enter(t, "verify")
    /\ frame' = [frame EXCEPT ![t] =
                    [body |-> body, op |-> "verify", signature |-> signature,
                     timestamp |-> timestamp, webhook_secret |-> webhook_secret]]

SignerCall(method, path, body, now, r) ==
    [body |-> body, headers |-> r.headers, method |-> method, now |-> now,
     path |-> path, raised |-> r.raised]

\* the body of _sign_request, called directly
SignRun(t) ==
    /\ pc[t] = "sign"
    /\ LET f == frame[t]
           r == SignRequest(client, f.method, f.path, f.body, clock)
       IN  /\ signer_calls' = [signer_calls EXCEPT ![t] =
                                  Append(@, SignerCall(f.method, f.path, f.body, clock, r))]
           /\ locals' = [locals EXCEPT ![t] =
                            [now |-> clock, signing_string |-> r.signing_string,
                             stage |-> "signed"]]
           /\ result' = [result EXCEPT ![t] =
                            IF r.raised # "" THEN Raised(r.raised) ELSE Returned(r.headers)]
    /\ pc' = [pc EXCEPT ![t] = "done"]
    /\ UNCHANGED <<INFINI_API_KEY, INFINI_SECRET_KEY, client, clock, frame, transport_calls>>

\* request: the credential guard
RequestGuard(t) ==
    /\ pc[t] = "request"
    /\ IF CredentialsMissing(client)
       THEN /\ result' = [result EXCEPT ![t] = Returned([error |-> MsgNotConfigured])]
            /\ pc' = [pc EXCEPT ![t] = "done"]
       ELSE /\ pc' = [pc EXCEPT ![t] = "request_sign"]
            /\ UNCHANGED result
    /\ UNCHANGED <<INFINI_API_KEY, INFINI_SECRET_KEY, client, clock, frame, locals,
                   signer_calls, transport_calls>>

\* request: url, body and headers are prepared; the signer is called
RequestSign(t) ==
    /\ pc[t] = "request_sign"
    /\ LET f == frame[t]
           url == client.base_url \o f.path
           body == IF f.json_data # None THEN Str(JsonDumps(Val(f.json_data))) ELSE None
           r == SignRequest(client, f.method, f.path, body, clock)
           headers == IF f.json_data # None
                      THEN [k \in DOMAIN r.headers \cup {"Content-Type"} |->
                               IF k = "Content-Type"
                               THEN <<97,112,112,108,105,99,97,116,105,111,
                                      110,47,106,115,111,110>>               \* "application/json"
                               ELSE r.headers[k]]
                      ELSE r.headers
       IN  /\ signer_calls' = [signer_calls EXCEPT ![t] =
                                  Append(@, SignerCall(f.method, f.path, body, clock, r))]
           /\ IF r.raised # ""
              THEN /\ result' = [result EXCEPT ![t] = Raised(r.raised)]
                   /\ pc' = [pc EXCEPT ![t] = "done"]
                   /\ UNCHANGED locals
              ELSE /\ locals' = [locals EXCEPT ![t] =
                                    [body |-> body, headers |-> headers, now |-> clock,
                                     stage |-> "prepared", url |-> url]]
                   /\ pc' = [pc EXCEPT ![t] = "request_send"]
                   /\ UNCHANGED result
    /\ UNCHANGED <<INFINI_API_KEY, INFINI_SECRET_KEY, client, clock, frame, transport_calls>>

\* what the transport does with a request
TransportOutcomes == {"exception", "http_status", "no_client", "ok"}

\* request: the try block
RequestSend(t, outcome) ==
    /\ pc[t] = "request_send"
    /\ LET f == frame[t]
           l == locals[t]
           url == IF Upper(f.method) = S_GET /\ f.params # None /\ Val(f.params) # << >>
                  THEN l.url \o <<63>> \o UrlEncode(Val(f.params))
                  ELSE l.url
       IN  /\ locals' = [locals EXCEPT ![t] = [l EXCEPT !.stage = outcome, !.url = url]]
           /\ transport_calls' =
                 IF outcome = "no_client" THEN transport_calls
                 ELSE [transport_calls EXCEPT ![t] =
                          Append(@, [data |-> l.body, headers |-> l.headers,
                                     method |-> f.method, url |-> url])]
           /\ result' = [result EXCEPT ![t] =
                 IF outcome = "ok" THEN Returned([response |-> "json"])
                 ELSE IF outcome = "http_status"
                      THEN Returned([detail |-> "text", error |-> "HTTP Error: 500"])
                 ELSE Returned([error |-> "str(e)"])]
    /\ pc' = [pc EXCEPT ![t] = "done"]
    /\ UNCHANGED <<INFINI_API_KEY, INFINI_SECRET_KEY, client, clock, frame, signer_calls>>

\* variant of VerifyResolve that stores the resolved secret in the global
VerifyResolve_caching(t) ==
    /\ pc[t] = "verify"
    /\ LET webhook_secret == ResolveSecret(frame[t].webhook_secret, INFINI_SECRET_KEY)
       IN  /\ INFINI_SECRET_KEY' = webhook_secret
           /\ IF Falsy(webhook_secret)
              THEN /\ result' = [result EXCEPT ![t] = Returned(MsgNoSecret)]
                   /\ locals' = [locals EXCEPT ![t] =
                                    [branch |-> "no_secret", stage |-> "verified", steps |-> 0]]
                   /\ pc' = [pc EXCEPT ![t] = "done"]
              ELSE /\ locals' = [locals EXCEPT ![t] =
                                    [stage |-> "resolved", webhook_secret |-> webhook_secret]]
                   /\ pc' = [pc EXCEPT ![t] = "verify_try"]
                   /\ UNCHANGED result
    /\ UNCHANGED <<INFINI_API_KEY, client, clock, frame,
                   signer_calls, transport_calls>>
\* verify_webhook_signature: the secret is resolved and checked
VerifyResolve(t) ==
    /\ pc[t] = "verify"
    /\ LET webhook_secret == ResolveSecret(frame[t].webhook_secret, INFINI_SECRET_KEY)
       IN  IF Falsy(webhook_secret)
           THEN /\ result' = [result EXCEPT ![t] = Returned(MsgNoSecret)]
                /\ locals' = [locals EXCEPT ![t] =
                                 [branch |-> "no_secret", stage |-> "verified", steps |-> 0]]
                /\ pc' = [pc EXCEPT ![t] = "done"]
           ELSE /\ locals' = [locals EXCEPT ![t] =
                                 [stage |-> "resolved", webhook_secret |-> webhook_secret]]
                /\ pc' = [pc EXCEPT ![t] = "verify_try"]
                /\ UNCHANGED result
    /\ UNCHANGED <<INFINI_API_KEY, INFINI_SECRET_KEY, client, clock, frame,
                   signer_calls, transport_calls>>

\* verify_webhook_signature: the try block
VerifyTry(t) ==
    /\ pc[t] = "verify_try"
    /\ LET f == frame[t]
           r == VerifyBody(f.body, f.signature, f.timestamp, Val(locals[t].webhook_secret))
       IN  /\ result' = [result EXCEPT ![t] = Returned(r.value)]
           /\ locals' = [locals EXCEPT ![t] =
                            [branch |-> r.branch, stage |-> "verified", steps |-> r.steps]]
    /\ pc' = [pc EXCEPT ![t] = "done"]
    /\ UNCHANGED <<INFINI_API_KEY, INFINI_SECRET_KEY, client, clock, frame,
                   signer_calls, transport_calls>>

\* the caller takes the result
Return(t) ==
    /\ pc[t] = "done"
    /\ pc' = [pc EXCEPT ![t] = "idle"]
    /\ frame' = [frame EXCEPT ![t] = NoFrame]
    /\ locals' = [locals EXCEPT ![t] = NoLocals]
    /\ result' = [result EXCEPT ![t] = Pending]
    /\ signer_calls' = [signer_calls EXCEPT ![t] = << >>]
    /\ transport_calls' = [transport_calls EXCEPT ![t] = << >>]
    /\ UNCHANGED <<INFINI_API_KEY, INFINI_SECRET_KEY, client, clock>>

\* a second passes
Tick ==
    /\ clock < MaxClock
    /\ clock' = clock + 1
    /\ UNCHANGED <<INFINI_API_KEY, INFINI_SECRET_KEY, client, pc, frame, locals,
                   result, signer_calls, transport_calls>>

\* ------------------------------------------------------------------------
\* Specifications
\* ------------------------------------------------------------------------
\* one caller, the full input sets
Next ==
    \/ \E m \in Methods, p \in Paths, b \in Bodies : CallSign(1, m, p, b)
    \/ \E m \in Methods, p \in Paths, j \in JsonInputs, q \in ParamInputs :
          CallRequest(1, m, p, j, q)
    \/ \E b \in WebhookBodies, ts \in Timestamps, w \in WebhookSecrets :
          \E sig \in SignatureTable[b, ts] :
             CallVerify(1, b, sig, ts, w)
    \/ SignRun(1)
    \/ RequestGuard(1)
    \/ RequestSign(1)
    \/ \E o \in TransportOutcomes : RequestSend(1, o)
    \/ VerifyResolve(1)
    \/ VerifyTry(1)
    \/ Return(1)
    \/ Tick

Spec == Init /\ [][Next]_vars

\* NumThreads concurrent callers, narrow input sets
NextConc ==
    \/ \E t \in ThreadIds, m \in ConcMethods, p \in ConcPaths, b \in ConcBodies :
          CallSign(t, m, p, b)
    \/ \E t \in ThreadIds, m \in ConcMethods, p \in ConcPaths, j \in ConcJsonInputs,
          q \in ConcParamInputs : CallRequest(t, m, p, j, q)
    \/ \E t \in ThreadIds, b \in ConcWebhookBodies, ts \in ConcTimestamps,
          w \in ConcWebhookSecrets :
          \E sig \in ConcSignatureTable[b, ts] :
             CallVerify(t, b, sig, ts, w)
    \/ \E t \in ThreadIds : SignRun(t)
    \/ \E t \in ThreadIds : RequestGuard(t)
    \/ \E t \in ThreadIds : RequestSign(t)
    \/ \E t \in ThreadIds, o \in ConcTransportOutcomes : RequestSend(t, o)
    \/ \E t \in ThreadIds : VerifyResolve(t)
    \/ \E t \in ThreadIds : VerifyTry(t)
    \/ \E t \in ThreadIds : Return(t)
    \/ Tick

SpecConc == InitConc /\ [][NextConc]_vars

\* ------------------------------------------------------------------------
\* Properties
\* ------------------------------------------------------------------------
Done(t, op) == pc[t] = "done" /\ frame[t].op = op

\* the value of  name="..."  in a structured header value
Matches(s, pat, i) == i + Len(pat) - 1 <= Len(s) /\ SubSeq(s, i, i + Len(pat) - 1) = pat
FirstIndex(s, pat) ==
    CHOOSE i \in 1..Len(s) : Matches(s, pat, i) /\ \A j \in 1..(i - 1) : ~Matches(s, pat, j)
FieldValue(s, name) ==
    LET pat == name \o <<61, 34>>
        rest == SubSeq(s, FirstIndex(s, pat) + Len(pat), Len(s))
    IN  SubSeq(rest, 1, FirstIndex(rest, <<34>>) - 1)

N_keyId == <<107,101,121,73,100>>
N_headers == <<104,101,97,100,101,114,115>>
N_signature == <<115,105,103,110,97,116,117,114,101>>
S_target_date == <<64,114,101,113,117,101,115,116,45,116,97,114,103,101,116,32,100,97,116,101>>
S_digest == <<100,105,103,101,115,116>>
S_sha256_eq == <<83,72,65,45,50,53,54,61>>

\* the secret a verify call has to go by, from its argument and the environment
SecretAvailable(f) == ~Falsy(f.webhook_secret) \/ ~Falsy(INFINI_SECRET_KEY)
SecretOf(f) == IF ~Falsy(f.webhook_secret) THEN Val(f.webhook_secret) ELSE Val(INFINI_SECRET_KEY)
ExpectedOf(f) == B64Hmac(Utf8Encode(SecretOf(f)), Utf8Encode(f.timestamp \o f.body))

\* C1: with a secret available and an ASCII signature, verify answers
\* "verified" exactly when the signature is base64(HMAC-SHA256(secret,
\* timestamp followed directly by body)), and "verification failed" otherwise.
C1_VerifiedIffSignatureMatches ==
    \A t \in ThreadIds :
        (Done(t, "verify") /\ SecretAvailable(frame[t]) /\ IsAscii(frame[t].signature))
        => result[t] = Returned(IF frame[t].signature = ExpectedOf(frame[t])
                                THEN MsgVerified ELSE MsgFailed)

C1_Witness ==
    \E t \in ThreadIds :
        /\ Done(t, "verify") /\ SecretAvailable(frame[t])
        /\ frame[t].signature = ExpectedOf(frame[t])
        /\ frame[t].timestamp # << >>
        /\ result[t] = Returned(MsgVerified)

\* the ways this program reports a configuration problem
IsConfigurationError(r) ==
    /\ r.raised \in {"", "ConfigurationError"}
    /\ r.raised = "" => r.value = MsgNoSecret

\* C2: without a secret (none configured, none supplied) sign and verify
\* each end in a configuration error, never in a normal result.
C2_NoSecretIsConfigurationError ==
    \A t \in ThreadIds :
        /\ (Done(t, "sign") /\ Falsy(INFINI_SECRET_KEY)) => IsConfigurationError(result[t])
        /\ (Done(t, "verify") /\ ~SecretAvailable(frame[t])) => IsConfigurationError(result[t])

\* C3: the headers sign returns hold a Digest entry exactly when body is not
\* None; the empty string is a body.
C3_DigestIffBody ==
    \A t \in ThreadIds :
        (Done(t, "sign") /\ result[t].raised = "")
        => (("Digest" \in DOMAIN result[t].value) <=> (frame[t].body # None))

C3_Witness ==
    \E t \in ThreadIds :
        /\ Done(t, "sign") /\ result[t].raised = ""
        /\ frame[t].body = Str(<< >>)
        /\ "Digest" \in DOMAIN result[t].value

\* C4: the headers="..." field of Authorization names the signed lines: it
\* lists digest exactly when a digest line was signed.
C4_HeadersFieldDeclaresSignedLines ==
    \A t \in ThreadIds :
        (Done(t, "sign") /\ result[t].raised = "")
        => FieldValue(result[t].value["Authorization"], N_headers)
             = S_target_date \o (IF frame[t].body # None THEN <<32>> \o S_digest ELSE << >>)

\* what a caller reads off the returned text / what the call was given
Observed(v) ==
    IF v = MsgVerified THEN "verified"
    ELSE IF v = MsgFailed THEN "failed"
    ELSE IF v = MsgNoSecret THEN "no_secret"
    ELSE "except"
Expected(f) ==
    IF ~SecretAvailable(f) THEN "no_secret"
    ELSE IF ~IsAscii(f.signature) THEN "except"
    ELSE IF f.signature = ExpectedOf(f) THEN "verified"
    ELSE "failed"

\* C5: the text verify returns tells its outcomes apart: missing secret,
\* failure inside the try block, mismatch and match each have their own
\* text, and only a match reads as verified.
C5_OutcomesDistinguishable ==
    \A t \in ThreadIds :
        Done(t, "verify")
        => /\ result[t].raised = ""
           /\ Observed(result[t].value) = locals[t].branch
           /\ locals[t].branch = Expected(frame[t])

C5_Witness ==
    \E t \in ThreadIds :
        /\ Done(t, "verify") /\ SecretAvailable(frame[t])
        /\ ~IsAscii(frame[t].signature)
        /\ result[t].value \notin {MsgVerified, MsgFailed, MsgNoSecret}

\* the canonical string as a receiver rebuilds it from the request and its headers
Rebuilt(method, path, headers) ==
    FieldValue(headers["Authorization"], N_keyId) \o LF
    \o Upper(method) \o <<32>> \o path \o LF
    \o <<100,97,116,101,58,32>> \o headers["Date"] \o LF
    \o (IF "Digest" \in DOMAIN headers
        THEN S_digest \o <<58, 32>> \o headers["Digest"] \o LF
        ELSE << >>)

\* C6: the signature in Authorization equals base64(HMAC-SHA256(secret, s))
\* for the canonical string s rebuilt from keyId, upper-cased method, path,
\* the Date header and the Digest header when there is one.
C6_RoundTrip ==
    \A t \in ThreadIds :
        (Done(t, "sign") /\ result[t].raised = "")
        => FieldValue(result[t].value["Authorization"], N_signature)
             = B64Hmac(Utf8Encode(Val(INFINI_SECRET_KEY)),
                       Utf8Encode(Rebuilt(frame[t].method, frame[t].path, result[t].value)))

C6_Witness ==
    \E t \in ThreadIds :
        /\ Done(t, "sign") /\ result[t].raised = ""
        /\ frame[t].method = S_post
        /\ "Digest" \in DOMAIN result[t].value
        /\ Len(FieldValue(result[t].value["Authorization"], N_signature)) = 4

\* the lines the signing string is to consist of
SignedLines(f, now) ==
    << PyFormat(INFINI_API_KEY),
       Upper(f.method) \o <<32>> \o f.path,
       <<100,97,116,101,58,32>> \o Strftime(now) >>
    \o (IF f.body # None
        THEN << S_digest \o <<58, 32>> \o S_sha256_eq
                \o B64Encode(Sha256(Utf8Encode(Val(f.body)))) >>
        ELSE << >>)
Terminated(lines) == Flatten([i \in 1..Len(lines) |-> lines[i] \o LF])

\* C7: the signing string is keyId, "METHOD path", "date: <Date>" and, with
\* a body, "digest: SHA-256=<base64 sha256>", in this order, each ended by
\* one line feed and nothing after the last.
C7_SigningStringLayout ==
    \A t \in ThreadIds :
        Done(t, "sign")
        => LET s == locals[t].signing_string
           IN  /\ s = Terminated(SignedLines(frame[t], locals[t].now))
               /\ s[Len(s)] = 10 /\ s[Len(s) - 1] # 10
               /\ result[t].raised = "" => result[t].value["Date"] = Strftime(locals[t].now)

C7_Witness ==
    \E t \in ThreadIds :
        /\ Done(t, "sign") /\ result[t].raised = ""
        /\ frame[t].body = Str(S_cafe) /\ frame[t].method = S_post
        /\ locals[t].now > 0
        /\ Len(SignedLines(frame[t], locals[t].now)) = 4

\* C8: for a signature as long as the expected one, the comparison visits
\* every position whether or where the two differ.
C8_ComparisonVisitsAllPositions ==
    \A t \in ThreadIds :
        (Done(t, "verify") /\ SecretAvailable(frame[t]) /\ IsAscii(frame[t].signature)
           /\ Len(frame[t].signature) = Len(ExpectedOf(frame[t])))
        => locals[t].steps = Len(ExpectedOf(frame[t]))

C8_Witness ==
    \E t \in ThreadIds :
        /\ Done(t, "verify") /\ SecretAvailable(frame[t]) /\ IsAscii(frame[t].signature)
        /\ Len(frame[t].signature) = Len(ExpectedOf(frame[t]))
        /\ frame[t].signature[1] # ExpectedOf(frame[t])[1]
        /\ result[t] = Returned(MsgFailed)
        /\ locals[t].steps = 4

\* what one invocation returns when nothing else runs
AloneSign(f, now) ==
    LET r == SignRequest(NewClient(INFINI_API_KEY, INFINI_SECRET_KEY),
                         f.method, f.path, f.body, now)
    IN  IF r.raised # "" THEN Raised(r.raised) ELSE Returned(r.headers)
AloneVerify(f) ==
    IF ~SecretAvailable(f) THEN Returned(MsgNoSecret)
    ELSE Returned(VerifyBody(f.body, f.signature, f.timestamp, SecretOf(f)).value)
AloneRequest(f, l) ==
    IF Falsy(INFINI_API_KEY) \/ Falsy(INFINI_SECRET_KEY)
    THEN Returned([error |-> MsgNotConfigured])
    ELSE IF l.stage = "ok" THEN Returned([response |-> "json"])
    ELSE IF l.stage = "http_status"
         THEN Returned([detail |-> "text", error |-> "HTTP Error: 500"])
    ELSE Returned([error |-> "str(e)"])
AloneHeaders(f, l) ==
    LET body == IF f.json_data # None THEN Str(JsonDumps(Val(f.json_data))) ELSE None
        h == SignRequest(NewClient(INFINI_API_KEY, INFINI_SECRET_KEY),
                         f.method, f.path, body, l.now).headers
    IN  [k \in {"Authorization", "Date"} |-> h[k]]

ResultsAsAlone ==
    /\ client = NewClient(INFINI_API_KEY, INFINI_SECRET_KEY)
    /\ \A t \in ThreadIds :
          /\ Done(t, "sign") => result[t] = AloneSign(frame[t], locals[t].now)
          /\ Done(t, "verify") => result[t] = AloneVerify(frame[t])
          /\ Done(t, "request") => result[t] = AloneRequest(frame[t], locals[t])
          /\ \A i \in 1..Len(transport_calls[t]) :
                [k \in {"Authorization", "Date"} |-> transport_calls[t][i].headers[k]]
                   = AloneHeaders(frame[t], locals[t])

\* C9: however sign, request and verify invocations interleave, the
\* credential (client and INFINI_SECRET_KEY, INFINI_API_KEY) keeps its initial value
\* and every invocation returns what it returns when run alone.
C9_ConcurrentCallsIndependent ==
    /\ []ResultsAsAlone
    /\ [][/\ client' = client
          /\ INFINI_SECRET_KEY' = INFINI_SECRET_KEY
          /\ INFINI_API_KEY' = INFINI_API_KEY]_vars

C9_Witness ==
    \E t, u \in ThreadIds :
        /\ t # u
        /\ Done(t, "verify") /\ frame[t].webhook_secret = Str(S_whsec)
        /\ Done(u, "verify") /\ frame[u].webhook_secret = None
        /\ result[u] = Returned(MsgVerified)
        /\ result[t] = Returned(MsgFailed)

\* C10: request hands nothing unsigned to the transport: with the key id or
\* the secret missing it returns the error value and calls neither signer
\* nor transport; every transport call carries the Date and Authorization
\* the signer returned for this method, path and body.
C10_NoUnsignedDispatch ==
    \A t \in ThreadIds :
        frame[t].op = "request"
        => /\ (Falsy(INFINI_API_KEY) \/ Falsy(INFINI_SECRET_KEY))
                => /\ signer_calls[t] = << >>
                   /\ transport_calls[t] = << >>
                   /\ pc[t] = "done" => result[t] = Returned([error |-> MsgNotConfigured])
           /\ \A i \in 1..Len(transport_calls[t]) :
                 LET c == transport_calls[t][i]
                 IN  /\ {"Authorization", "Date"} \subseteq DOMAIN c.headers
                     /\ c.method = frame[t].method
                     /\ \E j \in 1..Len(signer_calls[t]) :
                           LET sc == signer_calls[t][j]
                           IN  /\ sc.raised = ""
                               /\ sc.method = frame[t].method
                               /\ sc.path = frame[t].path
                               /\ sc.body = c.data
                               /\ (c.data = None) <=> (frame[t].json_data = None)
                               /\ c.headers["Date"] = sc.headers["Date"]
                               /\ c.headers["Authorization"] = sc.headers["Authorization"]

C10_Witness ==
    \E t \in ThreadIds :
        /\ Done(t, "request")
        /\ Len(transport_calls[t]) = 1
        /\ transport_calls[t][1].data # None
        /\ "Authorization" \in DOMAIN transport_calls[t][1].headers

====
